---- MODULE Spec2Model ----
(***************************************************************************)
(* The decode-execute core of the Game Boy CPU emulator: the register      *)
(* file, the flags, the micro-op queue and the byte store, stepped one     *)
(* bus cycle at a time by Cpu::execute_instruction.                        *)
(*                                                                         *)
(* Integers keep their Rust width: u8 values live in 0..255, u16 values in *)
(* 0..65535.  Plain `+` and `-` on them overflow; Rust panics there when   *)
(* the build has overflow checks (dev and test profiles) and wraps when it *)
(* has not (release profile).  overflow_checks is the build's choice.      *)
(***************************************************************************)
EXTENDS Integers, Sequences, FiniteSets, TLC

VARIABLES
    cpu,              \* struct Cpu: registers, sp, flags, pc, micro_op_queue
    memory,           \* struct Memory: the bytes of rom_bank_0 that are not 0
    panicked,         \* TRUE once a step has panicked; the step did not return
    overflow_checks,  \* the build profile: TRUE panics on overflow, FALSE wraps
    steps,            \* history: number of calls of execute_instruction that returned
    last,             \* history: what the last call did
    instr             \* history: the instruction being executed and the state it started in

vars == <<cpu, memory, panicked, overflow_checks, steps, last, instr>>

-----------------------------------------------------------------------------
(* Program constants *)

INITIAL_PC == 256
INITIAL_SP == 65534
ROM_BANK_0_START == 0
ROM_BANK_N_START == 16384

-----------------------------------------------------------------------------
(* Bit operations on 8-bit values *)

\* x & 0xF
low_nibble(x) == x % 16

\* (x & 0x10) == 0x10
bit4_set(x) == (x \div 16) % 2 = 1

RECURSIVE bitwise(_, _, _, _)
bitwise(op, x, y, n) ==
    IF n = 0 THEN 0
    ELSE LET bx == x % 2
             by == y % 2
             bit == CASE op = "and" -> IF bx = 1 /\ by = 1 THEN 1 ELSE 0
                      [] op = "or"  -> IF bx = 1 \/ by = 1 THEN 1 ELSE 0
                      [] op = "xor" -> IF bx # by THEN 1 ELSE 0
         IN  bit + 2 * bitwise(op, x \div 2, y \div 2, n - 1)

-----------------------------------------------------------------------------
(* memory.rs: only rom_bank_0 (0x0000..0x3FFF) is reachable through        *)
(* get_data and set_byte; every other address panics.  The array is        *)
(* represented by the function from the addresses holding a non-zero byte  *)
(* to that byte, so that equal arrays are equal values.                    *)

Memory_new == << >>

in_rom_bank_0(address) == address >= ROM_BANK_0_START /\ address < ROM_BANK_N_START

peek(m, address) == IF address \in DOMAIN m THEN m[address] ELSE 0

\* Memory::get_data: the byte, or a panic at an address outside rom_bank_0
get_data(m, address) ==
    IF in_rom_bank_0(address)
    THEN [panic |-> FALSE, value |-> peek(m, address)]
    ELSE [panic |-> TRUE, value |-> 0]

\* a byte that is not 0 is not overwritten
set_byte_keeping_written(m, address, data) ==
    IF address \in DOMAIN m
    THEN m
    ELSE LET dom == IF data = 0 THEN DOMAIN m ELSE DOMAIN m \cup {address}
         IN  [x \in dom |-> IF x = address THEN data ELSE m[x]]

\* Memory::set_byte at an accepted address
set_byte(m, address, data) ==
    LET dom == IF data = 0 THEN DOMAIN m \ {address} ELSE DOMAIN m \cup {address}
    IN  [x \in dom |-> IF x = address THEN data ELSE m[x]]

-----------------------------------------------------------------------------
(* cpu.rs: flags, registers, pairs *)

ZERO_FLAG == "ZERO_FLAG"
SUBTRACTION_FLAG == "SUBTRACTION_FLAG"
HALF_CARRY_FLAG == "HALF_CARRY_FLAG"
CARRY_FLAG == "CARRY_FLAG"

CpuFlags == {ZERO_FLAG, SUBTRACTION_FLAG, HALF_CARRY_FLAG, CARRY_FLAG}

\* CpuFlags::empty(), Cpu::clear_flags
clear_flags == {}

\* the initial values of sp and pc exchanged
Cpu_new_sp_pc_exchanged ==
    [a |-> 0, b |-> 0, d |-> 0, h |-> 0, f |-> 0, c |-> 0, e |-> 0, l |-> 0,
     micro_op_queue |-> << >>,
     flags |-> {},
     sp |-> INITIAL_PC,
     pc |-> INITIAL_SP]

Cpu_new ==
    [a |-> 0, b |-> 0, d |-> 0, h |-> 0, f |-> 0, c |-> 0, e |-> 0, l |-> 0,
     micro_op_queue |-> << >>,
     flags |-> clear_flags,
     sp |-> INITIAL_SP,
     pc |-> INITIAL_PC]

get_bc(self) == self.b * 256 + self.c
get_de(self) == self.d * 256 + self.e
get_hl(self) == self.h * 256 + self.l
get_sp(self) == self.sp

\* value >> 8 as u8, value & 0xFF as u8.  The casts truncate to 8 bits.
high_byte(value) == (value \div 256) % 256
\* (value & 0x7F) as u8
low_byte_seven_bits(value) == value % 128

low_byte(value) == value % 256

set_bc(self, value) == [self EXCEPT !.b = high_byte(value), !.c = low_byte(value)]
set_de(self, value) == [self EXCEPT !.d = high_byte(value), !.e = low_byte(value)]
set_hl(self, value) == [self EXCEPT !.h = high_byte(value), !.l = low_byte(value)]
set_sp(self, value) == [self EXCEPT !.sp = value]

\* Mutants: saturating_add(1) in place of wrapping_add(1)
saturating_add_u16(value) == IF value = 65535 THEN 65535 ELSE value + 1
saturating_add_u8(value) == IF value = 255 THEN 255 ELSE value + 1

\* u16::wrapping_add(1), u8::wrapping_add(1), u8::wrapping_sub
wrapping_add_u16(value) == (value + 1) % 65536
wrapping_add_u8(value) == (value + 1) % 256
wrapping_sub_u8(x, y) == (x - y + 256) % 256

-----------------------------------------------------------------------------
(* Arithmetic written with plain `+` and `-` in the source: a panic in a   *)
(* build with overflow checks, the wrapped value in a build without.       *)

add_u16(x, y) == [panic |-> overflow_checks /\ x + y > 65535, value |-> (x + y) % 65536]
sub_u16(x, y) == [panic |-> overflow_checks /\ x - y < 0, value |-> (x - y + 65536) % 65536]
sub_u8(x, y) == [panic |-> overflow_checks /\ x - y < 0, value |-> (x - y + 256) % 256]

-----------------------------------------------------------------------------
(* cpu.rs: the ALU.  Each operation yields the 8-bit result `out`, the     *)
(* flags it leaves in self.flags, and whether it panicked (then the flags  *)
(* are the incoming ones: the panic precedes clear_flags).                 *)

flag_if(cond, flag) == IF cond THEN {flag} ELSE {}

\* the incoming Carry is added as well
add_with_carry(self, value_one, value_two) ==
    LET carry == IF CARRY_FLAG \in self.flags THEN 1 ELSE 0
        half_carry == bit4_set(low_nibble(value_one) + low_nibble(value_two) + carry)
        output == value_one + value_two + carry
    IN  [panic |-> FALSE,
         out |-> output % 256,
         flags |-> flag_if(output % 256 = 0, ZERO_FLAG)
                   \cup flag_if(half_carry, HALF_CARRY_FLAG)
                   \cup flag_if(output > 255, CARRY_FLAG)]

add(self, value_one, value_two) ==
    LET half_carry == bit4_set(low_nibble(value_one) + low_nibble(value_two))
        output == value_one + value_two
    IN  [panic |-> FALSE,
         out |-> output % 256,
         flags |-> flag_if(output % 256 = 0, ZERO_FLAG)
                   \cup flag_if(half_carry, HALF_CARRY_FLAG)
                   \cup flag_if(output > 255, CARRY_FLAG)]

\* the incoming Carry is not added to the nibble sum
adc_half_carry_without_carry(self, value_one, value_two) ==
    LET carry == IF CARRY_FLAG \in self.flags THEN 1 ELSE 0
        half_carry == (low_nibble(value_one) + low_nibble(value_two)) > 15
        output == value_one + value_two + carry
    IN  [panic |-> FALSE,
         out |-> output % 256,
         flags |-> (flag_if(output % 256 = 0, ZERO_FLAG) \ {SUBTRACTION_FLAG})
                   \cup flag_if(half_carry, HALF_CARRY_FLAG)
                   \cup flag_if(output > 255, CARRY_FLAG)]

adc(self, value_one, value_two) ==
    LET carry == IF CARRY_FLAG \in self.flags THEN 1 ELSE 0
        half_carry == (low_nibble(value_one) + low_nibble(value_two)) + carry > 15
        output == value_one + value_two + carry
    IN  [panic |-> FALSE,
         out |-> output % 256,
         flags |-> (flag_if(output % 256 = 0, ZERO_FLAG) \ {SUBTRACTION_FLAG})
                   \cup flag_if(half_carry, HALF_CARRY_FLAG)
                   \cup flag_if(output > 255, CARRY_FLAG)]

sub(self, value_one, value_two) ==
    LET nibbles == sub_u8(low_nibble(value_one), low_nibble(value_two))
        half_carry == bit4_set(nibbles.value)
        output == wrapping_sub_u8(value_one, value_two)
    IN  IF nibbles.panic
        THEN [panic |-> TRUE, out |-> 0, flags |-> self.flags]
        ELSE [panic |-> FALSE,
              out |-> output,
              flags |-> flag_if(output = 0, ZERO_FLAG)
                        \cup {SUBTRACTION_FLAG}
                        \cup flag_if(half_carry, HALF_CARRY_FLAG)
                        \cup flag_if(value_one < value_two, CARRY_FLAG)]

\* the half-carry compares with the low nibble of value_two alone
sbc_half_carry_without_carry(self, value_one, value_two) ==
    LET carry == IF CARRY_FLAG \in self.flags THEN 1 ELSE 0
        output == wrapping_sub_u8(wrapping_sub_u8(value_one, value_two), carry)
    IN  [panic |-> FALSE,
         out |-> output,
         flags |-> flag_if(output = 0, ZERO_FLAG)
                   \cup {SUBTRACTION_FLAG}
                   \cup flag_if(low_nibble(value_one) < low_nibble(value_two), HALF_CARRY_FLAG)
                   \cup flag_if(output >= value_one, CARRY_FLAG)]

sbc(self, value_one, value_two) ==
    LET carry == IF CARRY_FLAG \in self.flags THEN 1 ELSE 0
        output == wrapping_sub_u8(wrapping_sub_u8(value_one, value_two), carry)
    IN  [panic |-> FALSE,
         out |-> output,
         flags |-> flag_if(output = 0, ZERO_FLAG)
                   \cup {SUBTRACTION_FLAG}
                   \cup flag_if(low_nibble(value_one) < low_nibble(wrapping_sub_u8(value_two, carry)),
                                HALF_CARRY_FLAG)
                   \cup flag_if(output >= value_one, CARRY_FLAG)]

\* Half-Carry is left clear
and_half_carry_clear(self, value_one, value_two) ==
    LET output == bitwise("and", value_one, value_two, 8)
    IN  [panic |-> FALSE,
         out |-> output,
         flags |-> flag_if(output = 0, ZERO_FLAG)]

and(self, value_one, value_two) ==
    LET output == bitwise("and", value_one, value_two, 8)
    IN  [panic |-> FALSE,
         out |-> output,
         flags |-> flag_if(output = 0, ZERO_FLAG) \cup {HALF_CARRY_FLAG}]

\* the flags are not cleared first
or_keeping_flags(self, value_one, value_two) ==
    LET output == bitwise("or", value_one, value_two, 8)
    IN  [panic |-> FALSE,
         out |-> output,
         flags |-> (self.flags \ {ZERO_FLAG}) \cup flag_if(output = 0, ZERO_FLAG)]

or(self, value_one, value_two) ==
    LET output == bitwise("or", value_one, value_two, 8)
    IN  [panic |-> FALSE,
         out |-> output,
         flags |-> flag_if(output = 0, ZERO_FLAG)]

\* the flags are not cleared first: a Zero flag that was set stays set
xor_keeping_zero(self, value_one, value_two) ==
    LET output == bitwise("xor", value_one, value_two, 8)
    IN  [panic |-> FALSE,
         out |-> output,
         flags |-> ((self.flags \cap {ZERO_FLAG}) \cup flag_if(output = 0, ZERO_FLAG))
                   \ {SUBTRACTION_FLAG, HALF_CARRY_FLAG, CARRY_FLAG}]

xor(self, value_one, value_two) ==
    LET output == bitwise("xor", value_one, value_two, 8)
    IN  [panic |-> FALSE,
         out |-> output,
         flags |-> flag_if(output = 0, ZERO_FLAG)
                   \ {SUBTRACTION_FLAG, HALF_CARRY_FLAG, CARRY_FLAG}]

\* the comparison borrows the incoming Carry
cp_with_borrow(self, value_one, value_two) == sbc(self, value_one, value_two)

\* cp is sub with the result discarded
cp(self, value_one, value_two) == sub(self, value_one, value_two)

-----------------------------------------------------------------------------
(* cpu.rs: enum Instruction and its FromPrimitive decoding.  The enum's    *)
(* values are tabulated by their bit fields: the low three bits name the   *)
(* source operand (6, the (HL) operand, is declared for no instruction),   *)
(* bits 3..5 the destination or the ALU operation.                         *)

\* B, C, D, E, H, L, -, A as the fields of Cpu
operand_register == <<"b", "c", "d", "e", "h", "l", "none", "a">>

alu_operation == <<"Add", "Adc", "Sub", "Sbc", "And", "Xor", "Or", "Cp">>

NoInstruction == [tag |-> "None"]

from_u8(data) ==
    CASE data = 0  -> [tag |-> "NOP"]
      [] data = 1  -> [tag |-> "LoadTwoByteImmediate", low |-> "C", high |-> "B"]
      [] data = 17 -> [tag |-> "LoadTwoByteImmediate", low |-> "E", high |-> "D"]
      [] data = 33 -> [tag |-> "LoadTwoByteImmediate", low |-> "L", high |-> "H"]
      [] data = 49 -> [tag |-> "LoadTwoByteImmediate", low |-> "P", high |-> "S"]
      [] data = 2  -> [tag |-> "StoreBcA"]
      [] data = 18 -> [tag |-> "StoreDeA"]
      [] data = 34 -> [tag |-> "StoreHlPlusA"]
      [] data = 50 -> [tag |-> "StoreHlMinusA"]
      [] data = 3  -> [tag |-> "IncBc"]
      [] data = 19 -> [tag |-> "IncDe"]
      [] data = 35 -> [tag |-> "IncHl"]
      [] data = 51 -> [tag |-> "IncSp"]
      [] data = 60 -> [tag |-> "IncR", r |-> "a"]
      [] data = 4  -> [tag |-> "IncR", r |-> "b"]
      [] data = 12 -> [tag |-> "IncR", r |-> "c"]
      [] data = 20 -> [tag |-> "IncR", r |-> "d"]
      [] data = 28 -> [tag |-> "IncR", r |-> "e"]
      [] data = 36 -> [tag |-> "IncR", r |-> "h"]
      [] data = 44 -> [tag |-> "IncR", r |-> "l"]
      [] data >= 64 /\ data <= 111 /\ data % 8 # 6 ->
            [tag |-> "Load",
             d |-> operand_register[((data - 64) \div 8) + 1],
             s |-> operand_register[(data % 8) + 1]]
      [] data >= 128 /\ data <= 191 /\ data % 8 # 6 ->
            [tag |-> alu_operation[((data - 128) \div 8) + 1],
             s |-> operand_register[(data % 8) + 1]]
      [] OTHER -> NoInstruction

\* Cpu::get_instruction: the read panics outside rom_bank_0, unwrap() panics
\* on a byte that is no Instruction
\* a byte outside the table is taken for NOP: unwrap_or(Instruction::NOP)
get_instruction_defaulting_to_nop(self, m) ==
    LET data == get_data(m, self.pc)
    IN  IF data.panic
        THEN [panic |-> TRUE, instruction |-> NoInstruction]
        ELSE [panic |-> FALSE,
              instruction |-> IF from_u8(data.value).tag = "None"
                              THEN [tag |-> "NOP"]
                              ELSE from_u8(data.value)]

get_instruction(self, m) ==
    LET data == get_data(m, self.pc)
    IN  IF data.panic
        THEN [panic |-> TRUE, instruction |-> NoInstruction]
        ELSE [panic |-> from_u8(data.value).tag = "None",
              instruction |-> from_u8(data.value)]

-----------------------------------------------------------------------------
(* cpu.rs: the micro-ops *)

LoadImmediate(destination) == [op |-> "LoadImmediate", destination |-> destination]
StoreToMemory(value, address) == [op |-> "StoreToMemory", value |-> value, address |-> address]
StoreToSixteenBitRegister(register, value) ==
    [op |-> "StoreToSixteenBitRegister", register |-> register, value |-> value]

\* Mutant: push_front in place of push_back
push_front(self, micro_op) ==
    [self EXCEPT !.micro_op_queue = <<micro_op>> \o self.micro_op_queue]

push_back(self, micro_op) ==
    [self EXCEPT !.micro_op_queue = Append(self.micro_op_queue, micro_op)]

\* Mutant: the entry is queued twice
load_eight_bit_register_with_immediate_twice(self, register) ==
    push_back(push_back(self, LoadImmediate(register)), LoadImmediate(register))

load_eight_bit_register_with_immediate(self, register) ==
    push_back(self, LoadImmediate(register))

\* Mutant: the arms of S and P exchanged
load_immediate_sp_halves_exchanged(self, destination, value) ==
    CASE destination = "A" -> [self EXCEPT !.a = value]
      [] destination = "B" -> [self EXCEPT !.b = value]
      [] destination = "D" -> [self EXCEPT !.d = value]
      [] destination = "H" -> [self EXCEPT !.h = value]
      [] destination = "F" -> [self EXCEPT !.f = value]
      [] destination = "C" -> [self EXCEPT !.c = value]
      [] destination = "E" -> [self EXCEPT !.e = value]
      [] destination = "L" -> [self EXCEPT !.l = value]
      [] destination = "P" -> [self EXCEPT !.sp = value * 256 + (self.sp % 256)]
      [] destination = "S" -> [self EXCEPT !.sp = (self.sp \div 256) * 256 + value]

\* The match on `destination` in execute_micro_op
load_immediate(self, destination, value) ==
    CASE destination = "A" -> [self EXCEPT !.a = value]
      [] destination = "B" -> [self EXCEPT !.b = value]
      [] destination = "D" -> [self EXCEPT !.d = value]
      [] destination = "H" -> [self EXCEPT !.h = value]
      [] destination = "F" -> [self EXCEPT !.f = value]
      [] destination = "C" -> [self EXCEPT !.c = value]
      [] destination = "E" -> [self EXCEPT !.e = value]
      [] destination = "L" -> [self EXCEPT !.l = value]
      [] destination = "S" -> [self EXCEPT !.sp = value * 256 + (self.sp % 256)]
      [] destination = "P" -> [self EXCEPT !.sp = (self.sp \div 256) * 256 + value]

\* Mutant: a write-back to a register pair clears the flags
store_sixteen_bit_register_clearing_flags(self, register, value) ==
    CASE register = "Bc" -> [set_bc(self, value) EXCEPT !.flags = {}]
      [] register = "Hl" -> [set_hl(self, value) EXCEPT !.flags = {}]
      [] register = "De" -> [set_de(self, value) EXCEPT !.flags = {}]
      [] register = "Sp" -> [set_sp(self, value) EXCEPT !.flags = {}]

\* The match on `register` in execute_micro_op
store_sixteen_bit_register(self, register, value) ==
    CASE register = "Bc" -> set_bc(self, value)
      [] register = "Hl" -> set_hl(self, value)
      [] register = "De" -> set_de(self, value)
      [] register = "Sp" -> set_sp(self, value)

\* self.pc += 1
advance_pc(self) ==
    LET next == add_u16(self.pc, 1)
    IN  [panic |-> next.panic,
         cpu |-> IF next.panic THEN self ELSE [self EXCEPT !.pc = next.value]]

\* the byte at PC is decoded before it is loaded
execute_load_immediate_decoding(popped, m, destination) ==
    LET decoded == get_instruction(popped, m)
        data == get_data(m, popped.pc)
        done == advance_pc(load_immediate(popped, destination, data.value))
    IN  IF decoded.panic
        THEN [panic |-> TRUE, cpu |-> popped, memory |-> m]
        ELSE [panic |-> done.panic, cpu |-> done.cpu, memory |-> m]

\* MicroOp::LoadImmediate: the byte at PC goes to `destination`
execute_load_immediate(popped, m, destination) ==
    LET data == get_data(m, popped.pc)
        done == advance_pc(load_immediate(popped, destination, data.value))
    IN  IF data.panic
        THEN [panic |-> TRUE, cpu |-> popped, memory |-> m]
        ELSE [panic |-> done.panic, cpu |-> done.cpu, memory |-> m]

\* Mutant: the byte is also written to the address that follows
execute_store_to_memory_and_next(popped, m, value, address) ==
    LET done == advance_pc(popped)
        next == IF in_rom_bank_0(address + 1) THEN address + 1 ELSE address
    IN  IF ~in_rom_bank_0(address)
        THEN [panic |-> TRUE, cpu |-> popped, memory |-> m]
        ELSE [panic |-> done.panic, cpu |-> done.cpu,
              memory |-> set_byte(set_byte(m, address, value), next, value)]

\* MicroOp::StoreToMemory
execute_store_to_memory(popped, m, value, address) ==
    LET done == advance_pc(popped)
    IN  IF ~in_rom_bank_0(address)
        THEN [panic |-> TRUE, cpu |-> popped, memory |-> m]
        ELSE [panic |-> done.panic, cpu |-> done.cpu, memory |-> set_byte(m, address, value)]

\* Mutant: the write-back leaves PC where it is
execute_store_to_sixteen_bit_register_keeping_pc(popped, m, register, value) ==
    [panic |-> FALSE, cpu |-> store_sixteen_bit_register(popped, register, value), memory |-> m]

\* MicroOp::StoreToSixteenBitRegister
execute_store_to_sixteen_bit_register(popped, m, register, value) ==
    LET done == advance_pc(store_sixteen_bit_register(popped, register, value))
    IN  [panic |-> done.panic, cpu |-> done.cpu, memory |-> m]

\* Mutant: the entry is read but stays at the front of the queue
execute_micro_op_keeping_entry(self, m) ==
    LET micro_op == Head(self.micro_op_queue)
    IN  CASE micro_op.op = "LoadImmediate" ->
               execute_load_immediate(self, m, micro_op.destination)
          [] micro_op.op = "StoreToMemory" ->
               execute_store_to_memory(self, m, micro_op.value, micro_op.address)
          [] micro_op.op = "StoreToSixteenBitRegister" ->
               execute_store_to_sixteen_bit_register(self, m, micro_op.register, micro_op.value)

\* Cpu::execute_micro_op.  The entry is popped first, so a panic in the
\* byte store leaves the queue without it.
execute_micro_op(self, m) ==
    LET micro_op == Head(self.micro_op_queue)
        popped == [self EXCEPT !.micro_op_queue = Tail(self.micro_op_queue)]
    IN  CASE micro_op.op = "LoadImmediate" ->
               execute_load_immediate(popped, m, micro_op.destination)
          [] micro_op.op = "StoreToMemory" ->
               execute_store_to_memory(popped, m, micro_op.value, micro_op.address)
          [] micro_op.op = "StoreToSixteenBitRegister" ->
               execute_store_to_sixteen_bit_register(popped, m, micro_op.register, micro_op.value)

-----------------------------------------------------------------------------
(* cpu.rs: the match on the instruction in fetch_and_execute_instruction *)

no_panic(self) == [panic |-> FALSE, cpu |-> self]

\* the store is queued with the address HL holds after the change
store_hl_a_address_after_change(self, changed) ==
    IF changed.panic
    THEN [panic |-> TRUE, cpu |-> self]
    ELSE [panic |-> FALSE,
          cpu |-> push_back(set_hl(self, changed.value), StoreToMemory(self.a, changed.value))]

\* Instruction::StoreHlPlusA / StoreHlMinusA: the store is queued with the
\* address HL holds now, then HL is changed with a plain `+ 1` / `- 1`
store_hl_a(self, changed) ==
    LET queued == push_back(self, StoreToMemory(self.a, get_hl(self)))
    IN  IF changed.panic
        THEN [panic |-> TRUE, cpu |-> queued]
        ELSE no_panic(set_hl(queued, changed.value))

\* Mutant: the result is also written to B
alu_writing_b(self, result, writes_a) ==
    IF result.panic
    THEN [panic |-> TRUE, cpu |-> self]
    ELSE [panic |-> FALSE,
          cpu |-> [self EXCEPT !.flags = result.flags,
                               !.a = IF writes_a THEN result.out ELSE @,
                               !.b = IF writes_a THEN result.out ELSE @]]

\* self.a = self.<op>(self.a, self.<s>), and self.cp(self.a, self.<s>)
alu(self, result, writes_a) ==
    IF result.panic
    THEN [panic |-> TRUE, cpu |-> self]
    ELSE no_panic([self EXCEPT !.flags = result.flags,
                               !.a = IF writes_a THEN result.out ELSE @])

\* the source takes the value of the destination
load_register_exchanged(self, destination, source) ==
    [self EXCEPT ![source] = self[destination]]

\* Instruction::Load<D><S> => self.<d> = self.<s>
load_register(self, destination, source) ==
    [self EXCEPT ![destination] = self[source]]

execute(self, instruction) ==
    LET tag == instruction.tag
    IN  CASE tag = "NOP" -> no_panic(self)
          [] tag = "LoadTwoByteImmediate" ->
               no_panic(load_eight_bit_register_with_immediate(
                            load_eight_bit_register_with_immediate(self, instruction.low),
                            instruction.high))
          [] tag = "StoreBcA" -> no_panic(push_back(self, StoreToMemory(self.a, get_bc(self))))
          [] tag = "StoreDeA" -> no_panic(push_back(self, StoreToMemory(self.a, get_de(self))))
          [] tag = "StoreHlPlusA" -> store_hl_a(self, add_u16(get_hl(self), 1))
          [] tag = "StoreHlMinusA" -> store_hl_a(self, sub_u16(get_hl(self), 1))
          [] tag = "IncBc" ->
               no_panic(push_back(self,
                   StoreToSixteenBitRegister("Bc", wrapping_add_u16(get_bc(self)))))
          [] tag = "IncDe" ->
               no_panic(push_back(self,
                   StoreToSixteenBitRegister("De", wrapping_add_u16(get_de(self)))))
          [] tag = "IncHl" ->
               no_panic(push_back(self,
                   StoreToSixteenBitRegister("Hl", wrapping_add_u16(get_hl(self)))))
          [] tag = "IncSp" ->
               no_panic(push_back(self,
                   StoreToSixteenBitRegister("Sp", wrapping_add_u16(get_sp(self)))))
          [] tag = "IncR" ->
               no_panic([self EXCEPT ![instruction.r] = wrapping_add_u8(self[instruction.r])])
          [] tag = "Load" -> no_panic(load_register(self, instruction.d, instruction.s))
          [] tag = "Add" -> alu(self, add(self, self.a, self[instruction.s]), TRUE)
          [] tag = "Adc" -> alu(self, adc(self, self.a, self[instruction.s]), TRUE)
          [] tag = "Sub" -> alu(self, sub(self, self.a, self[instruction.s]), TRUE)
          [] tag = "Sbc" -> alu(self, sbc(self, self.a, self[instruction.s]), TRUE)
          [] tag = "And" -> alu(self, and(self, self.a, self[instruction.s]), TRUE)
          [] tag = "Or"  -> alu(self, or(self, self.a, self[instruction.s]), TRUE)
          [] tag = "Xor" -> alu(self, xor(self, self.a, self[instruction.s]), TRUE)
          [] tag = "Cp"  -> alu(self, cp(self, self.a, self[instruction.s]), FALSE)

\* Cpu::fetch_and_execute_instruction.  A panic in get_instruction precedes
\* every change; a panic in the match follows `self.pc += 1`.
fetch_and_execute_instruction(self, m) ==
    LET fetched == get_instruction(self, m)
        advanced == advance_pc(self)
        done == execute(advanced.cpu, fetched.instruction)
    IN  IF fetched.panic THEN [panic |-> TRUE, cpu |-> self, memory |-> m]
        ELSE IF advanced.panic THEN [panic |-> TRUE, cpu |-> self, memory |-> m]
        ELSE [panic |-> done.panic, cpu |-> done.cpu, memory |-> m]

\* Mutant: a micro-op that empties the queue is followed, in the same step,
\* by the fetch of the next opcode
execute_instruction_fetching_after_drain(self, m) ==
    IF self.micro_op_queue = << >>
    THEN [fetched |-> 1, executed |-> 0, result |-> fetch_and_execute_instruction(self, m)]
    ELSE LET ran == execute_micro_op(self, m)
         IN  IF ran.panic \/ ran.cpu.micro_op_queue # << >>
             THEN [fetched |-> 0, executed |-> 1, result |-> ran]
             ELSE [fetched |-> 1, executed |-> 1,
                   result |-> fetch_and_execute_instruction(ran.cpu, ran.memory)]

\* Cpu::execute_instruction: one step.  `fetched` and `executed` record which
\* arm ran.
execute_instruction(self, m) ==
    IF self.micro_op_queue = << >>
    THEN [fetched |-> 1, executed |-> 0, result |-> fetch_and_execute_instruction(self, m)]
    ELSE [fetched |-> 0, executed |-> 1, result |-> execute_micro_op(self, m)]

-----------------------------------------------------------------------------
(* The programs the byte store holds when the core is constructed.  A      *)
(* program is a set-up (none, a pair load, a pair load and an ALU          *)
(* operation that gives A and the flags a value, optionally a second pair  *)
(* load) followed by one instruction; it is placed at INITIAL_PC, the rest *)
(* of the store is 0 (NOP).  MaxSteps bounds the calls of a run.           *)

MaxSteps == 9

\* <<low, high>>: the test's 0xF00F, 0xFFFF, 0x0200, 0x3FFF (the last address
\* of rom_bank_0), 0x4000 (the first one outside it)
ImmediatePairs == {<<15, 240>>, <<255, 255>>, <<0, 2>>, <<255, 63>>, <<0, 64>>}

\* LD BC,nn  LD DE,nn  LD HL,nn  LD SP,nn
LoadPairOpcodes == {1, 17, 33, 49}

\* OR A,B  AND A,B  SUB A,B, after LD BC,nn
AccumulatorPairs == {<<15, 240>>, <<255, 255>>}
AccumulatorOpcodes == {176, 160, 144}

PairLoads == {<<op, nn[1], nn[2]>> : op \in LoadPairOpcodes, nn \in ImmediatePairs}
AccumulatorLoads == {<<1, nn[1], nn[2], op>> : nn \in AccumulatorPairs, op \in AccumulatorOpcodes}

Setups ==
    {<< >>} \cup PairLoads \cup AccumulatorLoads
    \cup {acc \o ld : acc \in AccumulatorLoads, ld \in PairLoads}

\* One of each kind of instruction, and bytes that are no instruction
\* (0x10, 0x46, 0x76, 0xFF)
SingleOpcodes ==
    {0, 2, 18, 34, 50, 3, 19, 35, 51, 60, 4, 12, 20, 28, 36, 44,
     64, 65, 71, 103, 111, 128, 136, 144, 152, 160, 168, 176, 184, 191,
     16, 70, 118, 255}

Instructions == PairLoads \cup {<<op>> : op \in SingleOpcodes}

\* Every byte value as an opcode, on a fresh core and after set-ups that
\* give the registers and the flags distinct values
OpcodeSetups == {<< >>, <<1, 15, 240, 144>>, <<1, 15, 240, 144, 33, 0, 2>>}
OpcodePrograms == {setup \o <<op>> : setup \in OpcodeSetups, op \in 0..255}

\* LD rr,nn on a fresh core with a wider choice of immediate bytes
ImmediateBytes == {0, 1, 2, 15, 16, 63, 64, 127, 128, 240, 254, 255}
ImmediatePrograms ==
    {<<op, low, high>> : op \in LoadPairOpcodes, low \in ImmediateBytes, high \in ImmediateBytes}

Programs ==
    {setup \o instruction : setup \in Setups, instruction \in Instructions}
    \cup OpcodePrograms \cup ImmediatePrograms

\* The store with `program` at INITIAL_PC
Image(program) ==
    LET used == {INITIAL_PC + i - 1 : i \in {j \in 1..Len(program) : program[j] # 0}}
    IN  [address \in used |-> program[address - INITIAL_PC + 1]]

-----------------------------------------------------------------------------
(* The state machine.  instr.opcode is -1 while no opcode has been read.    *)

Init ==
    /\ memory \in {Image(program) : program \in Programs}
    /\ cpu = Cpu_new
    /\ panicked = FALSE
    /\ overflow_checks \in BOOLEAN
    /\ steps = 0
    /\ last = [fetched |-> 0, executed |-> 0]
    /\ instr = [opcode |-> -1, pc |-> INITIAL_PC, cpu |-> Cpu_new, memory |-> memory, n |-> 0]

\* One call of Cpu::execute_instruction by the host: the state it leaves and
\* the record of what it did.
Call ==
    LET call == execute_instruction(cpu, memory)
    IN  /\ cpu' = call.result.cpu
        /\ memory' = call.result.memory
        /\ panicked' = call.result.panic
        /\ steps' = IF call.result.panic THEN steps ELSE steps + 1
        /\ last' = [fetched |-> call.fetched, executed |-> call.executed]
        /\ instr' = IF call.fetched = 1
                    THEN [opcode |-> IF in_rom_bank_0(cpu.pc) THEN peek(memory, cpu.pc) ELSE -1,
                          pc |-> cpu.pc, cpu |-> cpu, memory |-> memory, n |-> 1]
                    ELSE [instr EXCEPT !.n = @ + 1]
        /\ UNCHANGED overflow_checks

\* The host steps the core.  A panic ends the run.
Step ==
    /\ ~panicked
    /\ steps < MaxSteps
    /\ Call

Next == Step

Spec == Init /\ [][Next]_vars

-----------------------------------------------------------------------------
(* The arrangement of the unit tests: Cpu::new, then the fields a, one     *)
(* operand register and flags are assigned, the opcode under test is put   *)
(* at cpu.pc and execute_instruction is called.  The operands of the       *)
(* operations on B run over every low nibble with the high nibbles 0x0,    *)
(* 0x8 and 0xF; the other operand registers take the pairs of TestPairs.   *)
(* A load is placed twice and all registers are given different values.    *)

MaxTestSteps == 2

HighNibbles == {0, 8, 15}
Operands == {16 * high + low : high \in HighNibbles, low \in 0..15}

\* <<a, operand>>
TestPairs == {<<255, 240>>, <<255, 255>>, <<16, 1>>, <<0, 0>>, <<128, 128>>, <<2, 0>>}

IncomingFlags ==
    {{}, {CARRY_FLAG}, {ZERO_FLAG, SUBTRACTION_FLAG, HALF_CARRY_FLAG}, CpuFlags}

\* ADD ADC SUB SBC AND XOR OR CP A,r and the eight with r = B
AluOpcodes == {op \in 128..191 : op % 8 # 6}
AluOpcodesB == {op \in AluOpcodes : op % 8 = 0}

\* LD d,s
LoadOpcodes == {op \in 64..111 : op % 8 # 6}

\* cpu.a = x; cpu.<register> = y; cpu.flags = incoming
arrange(x, register, y, incoming) ==
    [[Cpu_new EXCEPT !.a = x, !.flags = incoming] EXCEPT ![register] = y]

\* a, b, c, d, e, h, l = first, first + 1, ..., first + 6
register_file(first, incoming) ==
    [Cpu_new EXCEPT !.a = first, !.b = first + 1, !.c = first + 2, !.d = first + 3,
                    !.e = first + 4, !.h = first + 5, !.l = first + 6, !.flags = incoming]

AluTests ==
    {[cpu |-> arrange(x, "b", y, incoming), program |-> <<op>>] :
        x \in Operands, y \in Operands, incoming \in IncomingFlags, op \in AluOpcodesB}
    \cup
    {[cpu |-> arrange(pair[1], operand_register[(op % 8) + 1], pair[2], incoming), program |-> <<op>>] :
        pair \in TestPairs, incoming \in IncomingFlags, op \in AluOpcodes}

LoadTests ==
    {[cpu |-> register_file(first, incoming), program |-> <<op, op>>] :
        first \in {1, 249}, incoming \in IncomingFlags, op \in LoadOpcodes}

Tests == AluTests \cup LoadTests

TestInit ==
    /\ \E test \in Tests :
          /\ cpu = test.cpu
          /\ memory = Image(test.program)
    /\ panicked = FALSE
    /\ overflow_checks \in BOOLEAN
    /\ steps = 0
    /\ last = [fetched |-> 0, executed |-> 0]
    /\ instr = [opcode |-> -1, pc |-> INITIAL_PC, cpu |-> cpu, memory |-> memory, n |-> 0]

\* cpu.execute_instruction() in a test
TestStep ==
    /\ ~panicked
    /\ steps < MaxTestSteps
    /\ Call

TestNext == TestStep

SpecTest == TestInit /\ [][TestNext]_vars

-----------------------------------------------------------------------------
(* The parts of the core called on their own: Memory::get_data and         *)
(* Memory::set_byte on a fresh Memory, the pair setters and direct writes  *)
(* of a half on a fresh Cpu.  `last` records the call and its arguments.   *)

MaxPartCalls == 2

\* the first and the last address of rom_bank_0, INITIAL_PC, and addresses
\* of the banks behind it
Addresses == {0, 256, 16383, 16384, 32768, 65535}
DataBytes == {0, 1, 255}

\* 0x0000 0x0001 0x00FF 0x0100 0x1234 0x7FFF 0x8000 0xF00F 0xFF00 0xFFFE 0xFFFF
PairValues == {0, 1, 255, 256, 4660, 32767, 32768, 61455, 65280, 65534, 65535}

PartsInit ==
    /\ cpu = Cpu_new
    /\ memory = Memory_new
    /\ panicked = FALSE
    /\ overflow_checks \in BOOLEAN
    /\ steps = 0
    /\ last = [op |-> "new"]
    /\ instr = [opcode |-> -1, pc |-> INITIAL_PC, cpu |-> Cpu_new, memory |-> Memory_new, n |-> 0]

\* memory.get_data(address)
GetData ==
    /\ ~panicked
    /\ steps < MaxPartCalls
    /\ \E address \in Addresses :
          LET data == get_data(memory, address)
          IN  /\ panicked' = data.panic
              /\ last' = [op |-> "get_data", address |-> address, value |-> data.value]
    /\ steps' = steps + 1
    /\ UNCHANGED <<cpu, memory, overflow_checks, instr>>

\* memory.set_byte(address, data)
SetByte ==
    /\ ~panicked
    /\ steps < MaxPartCalls
    /\ \E address \in Addresses, data \in DataBytes :
          /\ panicked' = ~in_rom_bank_0(address)
          /\ memory' = IF in_rom_bank_0(address) THEN set_byte(memory, address, data) ELSE memory
          /\ last' = [op |-> "set_byte", address |-> address, data |-> data]
    /\ steps' = steps + 1
    /\ UNCHANGED <<cpu, overflow_checks, instr>>

\* cpu.set_bc(value), cpu.set_de(value), cpu.set_hl(value)
SetPair ==
    /\ ~panicked
    /\ steps < MaxPartCalls
    /\ \E register \in {"Bc", "De", "Hl"}, value \in PairValues :
          /\ cpu' = store_sixteen_bit_register(cpu, register, value)
          /\ last' = [op |-> "set_pair", register |-> register, value |-> value]
    /\ steps' = steps + 1
    /\ UNCHANGED <<memory, panicked, overflow_checks, instr>>

\* cpu.<register> = value
SetHalf ==
    /\ ~panicked
    /\ steps < MaxPartCalls
    /\ \E register \in {"b", "c", "d", "e", "h", "l"}, value \in DataBytes :
          /\ cpu' = [cpu EXCEPT ![register] = value]
          /\ last' = [op |-> "set_half", register |-> register, value |-> value]
    /\ steps' = steps + 1
    /\ UNCHANGED <<memory, panicked, overflow_checks, instr>>

PartsNext == GetData \/ SetByte \/ SetPair \/ SetHalf

SpecParts == PartsInit /\ [][PartsNext]_vars

\* struct Cpu and struct Memory: the width of every field
TypeOK ==
    /\ \A r \in {"a", "b", "d", "h", "f", "c", "e", "l"} : cpu[r] \in 0..255
    /\ cpu.sp \in 0..65535
    /\ cpu.pc \in 0..65535
    /\ cpu.flags \subseteq CpuFlags
    /\ \A i \in 1..Len(cpu.micro_op_queue) :
          cpu.micro_op_queue[i].op \in {"LoadImmediate", "StoreToMemory", "StoreToSixteenBitRegister"}
    /\ \A address \in DOMAIN memory : in_rom_bank_0(address) /\ memory[address] \in 1..255
    /\ panicked \in BOOLEAN
    /\ overflow_checks \in BOOLEAN

-----------------------------------------------------------------------------
(* Vocabulary of the properties.  `instr` holds the opcode of the          *)
(* instruction in progress, the address it was fetched from, the state the *)
(* fetching step started in, and the number of steps made for it.          *)

Registers == {"a", "b", "c", "d", "e", "h", "l", "f", "sp"}

\* every register outside `changed` has the value it had at the opcode fetch
RegistersKept(changed) == \A r \in Registers \ changed : cpu[r] = instr.cpu[r]

FlagsKept == cpu.flags = instr.cpu.flags

QueueEmpty == cpu.micro_op_queue = << >>

\* the byte an instruction finds `offset` bytes after its opcode
ByteAfterOpcode(offset) == peek(instr.memory, instr.pc + offset)

\* the halves of the pair LD rr,nn loads, as fields of Cpu (SP has no halves)
PairFields(opcode) ==
    CASE opcode \in {1, 2, 3}    -> {"b", "c"}
      [] opcode \in {17, 18, 19} -> {"d", "e"}
      [] opcode \in {33, 35}     -> {"h", "l"}
      [] opcode \in {49, 51}     -> {"sp"}

\* the 16-bit value of that pair in state `self`
PairValue(opcode, self) ==
    CASE opcode \in {1, 2, 3}    -> get_bc(self)
      [] opcode \in {17, 18, 19} -> get_de(self)
      [] opcode \in {33, 35}     -> get_hl(self)
      [] opcode \in {49, 51}     -> get_sp(self)

StoreOpcodes == {2, 18}
IncPairOpcodes == {3, 19, 35, 51}

-----------------------------------------------------------------------------
\* C1: a step with a non-empty queue removes exactly the front entry,
\* executes it and fetches no opcode; a step with an empty queue fetches
\* the byte at PC, advances PC and dispatches that opcode; no step runs both
\* arms or more than one micro-op.
C1_OneArmPerStep ==
    [][/\ last'.fetched + last'.executed = 1
       /\ ~QueueEmpty =>
             /\ last'.executed = 1
             /\ cpu'.micro_op_queue = Tail(cpu.micro_op_queue)
             /\ instr'.pc = instr.pc /\ instr'.opcode = instr.opcode
             /\ ~panicked' => /\ cpu' = execute_micro_op(cpu, memory).cpu
                              /\ memory' = execute_micro_op(cpu, memory).memory
       /\ (QueueEmpty /\ ~panicked') =>
             /\ last'.fetched = 1
             /\ instr'.pc = cpu.pc /\ instr'.opcode = peek(memory, cpu.pc)
             /\ cpu'.pc = cpu.pc + 1
             /\ cpu' = execute([cpu EXCEPT !.pc = @ + 1], from_u8(peek(memory, cpu.pc))).cpu
             /\ memory' = memory]_vars

\* a micro-op step that left the second of two queued entries in the queue
C1_Witness ==
    /\ ~panicked
    /\ last.executed = 1
    /\ Len(cpu.micro_op_queue) = 1
    /\ instr.n = 2

\* C2: every step that completes adds exactly 1 to PC, whatever it did, so
\* PC = 0x0100 + the number of completed steps.
C2_PcCountsSteps ==
    [][~panicked' => /\ cpu'.pc = cpu.pc + 1
                     /\ cpu'.pc = INITIAL_PC + steps']_vars

\* a store micro-op has completed after the two immediate loads of a pair
C2_Witness ==
    /\ ~panicked
    /\ last.executed = 1
    /\ instr.opcode \in StoreOpcodes
    /\ memory # instr.memory
    /\ steps > 5
    /\ cpu.pc = INITIAL_PC + steps

\* the number of bytes of the instruction stream an instruction reads: its
\* opcode, and the two immediate bytes of LD rr,nn
BytesRead(opcode) == IF opcode \in LoadPairOpcodes THEN 3 ELSE 1

\* C3: when an instruction has finished (the queue is empty again), PC has
\* advanced from the opcode's address by the number of bytes the instruction
\* read, so PC is the address of the byte that follows the instruction.
C3_PcAdvanceIsBytesRead ==
    (~panicked /\ instr.n >= 1 /\ QueueEmpty) => cpu.pc = instr.pc + BytesRead(instr.opcode)

\* C4: LD rr,nn with its three bytes inside the byte store: none of the
\* three steps fails, and after the third the pair is (high << 8) | low, PC
\* is p + 3, the queue is empty, and the flags and all other registers are
\* as before the instruction.
C4_LoadPairImmediate ==
    (instr.opcode \in LoadPairOpcodes /\ in_rom_bank_0(instr.pc + 2)) =>
        /\ ~panicked
        /\ instr.n <= 3
        /\ instr.n = 3 =>
              /\ PairValue(instr.opcode, cpu) = ByteAfterOpcode(2) * 256 + ByteAfterOpcode(1)
              /\ cpu.pc = instr.pc + 3
              /\ QueueEmpty
              /\ FlagsKept
              /\ RegistersKept(PairFields(instr.opcode))
              /\ memory = instr.memory

\* a pair loaded with two different non-zero bytes while A and the flags
\* hold something
C4_Witness ==
    /\ instr.opcode \in LoadPairOpcodes
    /\ instr.n = 3
    /\ ~panicked
    /\ ByteAfterOpcode(1) = 15
    /\ ByteAfterOpcode(2) = 240
    /\ PairValue(instr.opcode, cpu) = 61455
    /\ PairValue(instr.opcode, instr.cpu) # 61455
    /\ cpu.a # 0
    /\ cpu.flags # {}

\* the halves of the pair LD rr,nn loads, in state `self`
LowHalf(opcode, self) == PairValue(opcode, self) % 256
HighHalf(opcode, self) == PairValue(opcode, self) \div 256

\* C5: the two loads of LD rr,nn run in the order they were queued: after
\* the dispatch neither half has changed, after the second step the low half
\* is the byte at p+1 and the high half is still the old one, after the third
\* step the high half is the byte at p+2.
C5_LowByteThenHighByte ==
    (instr.opcode \in LoadPairOpcodes /\ ~panicked) =>
        /\ instr.n = 1 =>
              /\ PairValue(instr.opcode, cpu) = PairValue(instr.opcode, instr.cpu)
              /\ Len(cpu.micro_op_queue) = 2
        /\ instr.n = 2 =>
              /\ LowHalf(instr.opcode, cpu) = ByteAfterOpcode(1)
              /\ HighHalf(instr.opcode, cpu) = HighHalf(instr.opcode, instr.cpu)
              /\ Len(cpu.micro_op_queue) = 1
        /\ instr.n = 3 =>
              /\ LowHalf(instr.opcode, cpu) = ByteAfterOpcode(1)
              /\ HighHalf(instr.opcode, cpu) = ByteAfterOpcode(2)

\* after the second step the low half is new and the high half is still the
\* old one, and all four bytes involved differ
C5_Witness ==
    /\ instr.opcode \in LoadPairOpcodes
    /\ ~panicked
    /\ instr.n = 2
    /\ LowHalf(instr.opcode, cpu) # LowHalf(instr.opcode, instr.cpu)
    /\ HighHalf(instr.opcode, cpu) # ByteAfterOpcode(2)
    /\ ByteAfterOpcode(1) # ByteAfterOpcode(2)
    /\ HighHalf(instr.opcode, cpu) # ByteAfterOpcode(1)

\* C6: LD (HL+),A (0x22): neither step fails, and after the two steps the
\* byte at the address HL held holds the A of the dispatch and HL is that
\* address plus one modulo 2^16.
C6_StoreHlPlus ==
    (instr.opcode = 34 /\ instr.n >= 1) =>
        /\ ~panicked
        /\ instr.n = 2 =>
              /\ peek(memory, get_hl(instr.cpu)) = instr.cpu.a
              /\ get_hl(cpu) = (get_hl(instr.cpu) + 1) % 65536

\* C7: LD (HL-),A (0x32): neither step fails, and after the two steps the
\* byte at the address HL held holds A and HL is that address minus one
\* modulo 2^16.
C7_StoreHlMinus ==
    (instr.opcode = 50 /\ instr.n >= 1) =>
        /\ ~panicked
        /\ instr.n = 2 =>
              /\ peek(memory, get_hl(instr.cpu)) = instr.cpu.a
              /\ get_hl(cpu) = (get_hl(instr.cpu) + 65535) % 65536

\* C8: LD (BC),A and LD (DE),A: after the two steps the byte at the address
\* the pair held at dispatch holds A, every other byte is as before, and the
\* registers and the flags are as before.
C8_StoreToPairAddress ==
    (instr.opcode \in StoreOpcodes /\ instr.n >= 1) =>
        /\ ~panicked
        /\ instr.n = 2 =>
              /\ memory = set_byte(instr.memory, PairValue(instr.opcode, instr.cpu), instr.cpu.a)
              /\ peek(memory, PairValue(instr.opcode, instr.cpu)) = instr.cpu.a
              /\ RegistersKept({})
              /\ FlagsKept

\* C9: INC rr: the dispatch leaves the pair and the flags alone and queues
\* the write-back; the second step sets the pair to (v + 1) mod 2^16 and
\* leaves the flags alone.
C9_IncPair ==
    (instr.opcode \in IncPairOpcodes /\ instr.n >= 1) =>
        /\ ~panicked
        /\ FlagsKept
        /\ instr.n <= 2
        /\ instr.n = 1 =>
              /\ PairValue(instr.opcode, cpu) = PairValue(instr.opcode, instr.cpu)
              /\ Len(cpu.micro_op_queue) = 1
        /\ instr.n = 2 =>
              /\ PairValue(instr.opcode, cpu) = (PairValue(instr.opcode, instr.cpu) + 1) % 65536
              /\ QueueEmpty

\* a pair holding 0xFFFF has become 0x0000 while flags were set
C9_Witness ==
    /\ instr.opcode \in IncPairOpcodes
    /\ ~panicked
    /\ instr.n = 2
    /\ PairValue(instr.opcode, instr.cpu) = 65535
    /\ PairValue(instr.opcode, cpu) = 0
    /\ cpu.flags # {}

IncRegisterOpcodes == {60, 4, 12, 20, 28, 36, 44}

\* C10: INC r: the one step sets r to (r + 1) mod 256, queues nothing, and
\* leaves the flags and every other register alone.
C10_IncRegister ==
    (instr.opcode \in IncRegisterOpcodes /\ instr.n >= 1) =>
        LET r == from_u8(instr.opcode).r
        IN  /\ ~panicked
            /\ instr.n = 1
            /\ cpu[r] = (instr.cpu[r] + 1) % 256
            /\ QueueEmpty
            /\ FlagsKept
            /\ RegistersKept({r})
            /\ memory = instr.memory

\* a register holding 0xFF has become 0x00 while flags were set
C10_Witness ==
    /\ instr.opcode \in IncRegisterOpcodes
    /\ ~panicked
    /\ instr.cpu[from_u8(instr.opcode).r] = 255
    /\ cpu[from_u8(instr.opcode).r] = 0
    /\ cpu.flags # {}

-----------------------------------------------------------------------------
\* C11: LD d,s (0x40-0x6F): the one step sets d to the value s had, queues
\* nothing and leaves the flags, the store and every other register alone;
\* with d = s only PC changes, by 1; the same load executed a second time
\* changes no register.
C11_LoadRegister ==
    (instr.opcode \in LoadOpcodes /\ instr.n >= 1) =>
        LET d == operand_register[((instr.opcode - 64) \div 8) + 1]
            s == operand_register[(instr.opcode % 8) + 1]
        IN  /\ ~panicked
            /\ instr.n = 1
            /\ cpu[d] = instr.cpu[s]
            /\ QueueEmpty
            /\ FlagsKept
            /\ RegistersKept({d})
            /\ memory = instr.memory
            /\ cpu.pc = instr.pc + 1
            /\ d = s => cpu = [instr.cpu EXCEPT !.pc = @ + 1]
            /\ (steps = 2 /\ instr.pc = INITIAL_PC + 1 /\ peek(instr.memory, INITIAL_PC) = instr.opcode) =>
                  \A r \in Registers : cpu[r] = instr.cpu[r]

\* a load between two different registers has been executed twice, with
\* flags set
C11_Witness ==
    /\ instr.opcode \in LoadOpcodes
    /\ ~panicked
    /\ steps = 2
    /\ peek(instr.memory, INITIAL_PC) = instr.opcode
    /\ (instr.opcode - 64) \div 8 # instr.opcode % 8
    /\ cpu[operand_register[((instr.opcode - 64) \div 8) + 1]] = cpu[operand_register[(instr.opcode % 8) + 1]]
    /\ cpu.flags # {}

\* C12: before the first call of execute_instruction the core Cpu::new built
\* has PC = 0x0100, SP = 0xFFFE, A, B, C, D, E, H and L = 0, no flag set
\* and an empty micro-op queue.
C12_NewCpu ==
    instr.n = 0 =>
        /\ cpu.pc = 256
        /\ cpu.sp = 65534
        /\ \A r \in {"a", "b", "c", "d", "e", "h", "l"} : cpu[r] = 0
        /\ cpu.flags \cap {ZERO_FLAG, SUBTRACTION_FLAG, HALF_CARRY_FLAG, CARRY_FLAG} = {}
        /\ Len(cpu.micro_op_queue) = 0

\* a core has been constructed over a store that holds a program, and has
\* not been stepped
C12_Witness ==
    /\ instr.n = 0
    /\ steps = 0
    /\ ~panicked
    /\ DOMAIN memory # {}
    /\ QueueEmpty

-----------------------------------------------------------------------------
(* Vocabulary of the properties of the ALU operations.  An operation on A  *)
(* and r is observed through the step that executes its opcode: x and y    *)
(* are the values of A and r when the opcode was fetched, the result is    *)
(* what the step leaves in A.                                              *)

AddOpcodes == {op \in AluOpcodes : op \in 128..135}
AdcOpcodes == {op \in AluOpcodes : op \in 136..143}
SubOpcodes == {op \in AluOpcodes : op \in 144..151}
SbcOpcodes == {op \in AluOpcodes : op \in 152..159}
AndOpcodes == {op \in AluOpcodes : op \in 160..167}
XorOpcodes == {op \in AluOpcodes : op \in 168..175}
OrOpcodes  == {op \in AluOpcodes : op \in 176..183}
CpOpcodes  == {op \in AluOpcodes : op \in 184..191}

\* the step that executes the opcode has been made
Executed(opcodes) == instr.opcode \in opcodes /\ instr.n >= 1

OperandX == instr.cpu.a
OperandY == instr.cpu[operand_register[(instr.opcode % 8) + 1]]
CarryIn == IF CARRY_FLAG \in instr.cpu.flags THEN 1 ELSE 0

\* the flag set in which each flag is set iff its condition holds
FlagsIff(zero, subtraction, half_carry, carry) ==
    {flag \in CpuFlags : \/ flag = ZERO_FLAG /\ zero
                         \/ flag = SUBTRACTION_FLAG /\ subtraction
                         \/ flag = HALF_CARRY_FLAG /\ half_carry
                         \/ flag = CARRY_FLAG /\ carry}

-----------------------------------------------------------------------------
\* C13: SUB A,r returns for all x and y, leaves (x - y) mod 256 in A, sets
\* Subtraction, sets Zero iff the result is 0, Half-Carry iff
\* (x & 0xF) < (y & 0xF) and Carry iff x < y.
C13_Sub ==
    Executed(SubOpcodes) =>
        LET x == OperandX
            y == OperandY
            result == (x - y + 256) % 256
        IN  /\ ~panicked
            /\ cpu.a = result
            /\ cpu.flags = FlagsIff(result = 0, TRUE, x % 16 < y % 16, x < y)

\* C14: SBC A,r sets Carry iff the subtraction wrapped, that is iff
\* x < y + carry_in.
C14_SbcCarry ==
    Executed(SbcOpcodes) =>
        /\ ~panicked
        /\ CARRY_FLAG \in cpu.flags <=> OperandX < OperandY + CarryIn

\* C15: SBC A,r returns for all x, y and incoming Carry, leaves
\* (x - y - carry_in) mod 256 in A, sets Subtraction, sets Zero iff the
\* result is 0 and Half-Carry iff (x & 0xF) < ((y - carry_in) & 0xF);
\* sbc(0xFF, 0xF0) with Carry set gives 0x0E and Subtraction alone.
C15_Sbc ==
    Executed(SbcOpcodes) =>
        LET x == OperandX
            y == OperandY
            result == (x - y - CarryIn + 512) % 256
        IN  /\ ~panicked
            /\ cpu.a = result
            /\ cpu.flags \ {CARRY_FLAG} =
                  FlagsIff(result = 0, TRUE, x % 16 < (y - CarryIn + 256) % 16, FALSE)
            /\ (x = 255 /\ y = 240 /\ CarryIn = 1) =>
                  cpu.a = 14 /\ cpu.flags = {SUBTRACTION_FLAG}

\* sbc(0xFF, 0xF0) with Carry set has been executed
C15_Witness ==
    /\ Executed(SbcOpcodes)
    /\ ~panicked
    /\ OperandX = 255
    /\ OperandY = 240
    /\ CarryIn = 1
    /\ cpu.a = 14

\* C16: ADC A,r returns for all x, y and incoming Carry, leaves
\* (x + y + carry_in) mod 256 in A, clears Subtraction, sets Zero iff the
\* result is 0, Half-Carry iff (x & 0xF) + (y & 0xF) + carry_in > 0xF and
\* Carry iff x + y + carry_in > 255; adc(0x80, 0x80) with Carry set gives
\* 0x01 and Carry alone.
C16_Adc ==
    Executed(AdcOpcodes) =>
        LET x == OperandX
            y == OperandY
            sum == x + y + CarryIn
        IN  /\ ~panicked
            /\ cpu.a = sum % 256
            /\ cpu.flags = FlagsIff(sum % 256 = 0, FALSE, (x % 16) + (y % 16) + CarryIn > 15, sum > 255)
            /\ (x = 128 /\ y = 128 /\ CarryIn = 1) =>
                  cpu.a = 1 /\ cpu.flags = {CARRY_FLAG}

\* adc(0x80, 0x80) with Carry set has been executed
C16_Witness ==
    /\ Executed(AdcOpcodes)
    /\ ~panicked
    /\ OperandX = 128
    /\ OperandY = 128
    /\ CarryIn = 1
    /\ cpu.a = 1

\* C17: ADD A,r returns for all x and y, leaves (x + y) mod 256 in A, clears
\* Subtraction, sets Zero iff the result is 0, Half-Carry iff
\* (x & 0xF) + (y & 0xF) > 0xF and Carry iff x + y > 255, whatever the
\* incoming Carry is.
C17_Add ==
    Executed(AddOpcodes) =>
        LET x == OperandX
            y == OperandY
            sum == x + y
        IN  /\ ~panicked
            /\ cpu.a = sum % 256
            /\ cpu.flags = FlagsIff(sum % 256 = 0, FALSE, (x % 16) + (y % 16) > 15, sum > 255)

\* an addition that carries out of both nibbles has been executed with the
\* incoming Carry set
C17_Witness ==
    /\ Executed(AddOpcodes)
    /\ ~panicked
    /\ CarryIn = 1
    /\ OperandX = 255
    /\ OperandY = 1
    /\ cpu.a = 0
    /\ cpu.flags = {ZERO_FLAG, HALF_CARRY_FLAG, CARRY_FLAG}

\* bit `i` of the byte `value`
Bit(value, i) == (value \div (2 ^ i)) % 2

\* C18: AND A,r leaves x & y in A (x itself when y = x), sets Half-Carry,
\* clears Subtraction and Carry, and sets Zero iff the result is 0.
C18_And ==
    Executed(AndOpcodes) =>
        LET x == OperandX
            y == OperandY
        IN  /\ ~panicked
            /\ cpu.a \in 0..255
            /\ \A i \in 0..7 : Bit(cpu.a, i) = Bit(x, i) * Bit(y, i)
            /\ x = y => cpu.a = x
            /\ cpu.flags = FlagsIff(cpu.a = 0, FALSE, TRUE, FALSE)

\* two non-zero operands with no common bit have been combined while every
\* flag was set
C18_Witness ==
    /\ Executed(AndOpcodes)
    /\ ~panicked
    /\ OperandX = 15
    /\ OperandY = 240
    /\ instr.cpu.flags = CpuFlags
    /\ cpu.a = 0
    /\ cpu.flags = {ZERO_FLAG, HALF_CARRY_FLAG}

\* C19: OR A,r leaves x | y in A and XOR A,r leaves x ^ y; both clear
\* Subtraction, Half-Carry and Carry whatever the flags were and set Zero
\* iff the result is 0; XOR A,A gives 0 with Zero alone.
C19_OrXor ==
    LET x == OperandX
        y == OperandY
    IN  /\ Executed(OrOpcodes) =>
              /\ ~panicked
              /\ cpu.a \in 0..255
              /\ \A i \in 0..7 : Bit(cpu.a, i) = Bit(x, i) + Bit(y, i) - Bit(x, i) * Bit(y, i)
              /\ cpu.flags = FlagsIff(cpu.a = 0, FALSE, FALSE, FALSE)
        /\ Executed(XorOpcodes) =>
              /\ ~panicked
              /\ cpu.a \in 0..255
              /\ \A i \in 0..7 : Bit(cpu.a, i) = (Bit(x, i) + Bit(y, i)) % 2
              /\ cpu.flags = FlagsIff(cpu.a = 0, FALSE, FALSE, FALSE)
              /\ instr.opcode = 175 => cpu.a = 0 /\ cpu.flags = {ZERO_FLAG}

\* XOR A,A has been executed on a non-zero A with every flag set
C19_Witness ==
    /\ Executed(XorOpcodes)
    /\ ~panicked
    /\ instr.opcode = 175
    /\ instr.cpu.flags = CpuFlags
    /\ instr.cpu.a # 0
    /\ cpu.a = 0
    /\ cpu.flags = {ZERO_FLAG}

\* the outcome of SUB A,r dispatched in the state the opcode was fetched in
SubFromSameState == execute(instr.cpu, [tag |-> "Sub", s |-> operand_register[(instr.opcode % 8) + 1]])

\* C20: CP A,r (0xB8-0xBF) returns exactly when SUB A,r would return from
\* the same state; the flags it leaves are those SUB A,r would leave, and A,
\* every other register, the queue and the store are as they were.
C20_CpFlagsOfSub ==
    Executed(CpOpcodes) =>
        /\ panicked = SubFromSameState.panic
        /\ ~panicked =>
              /\ cpu.flags = SubFromSameState.cpu.flags
              /\ cpu.pc = instr.pc + 1
        /\ cpu.a = instr.cpu.a
        /\ RegistersKept({})
        /\ QueueEmpty
        /\ memory = instr.memory

\* CP A,r has compared 0xFF with 0xF0 while every flag was set: A is still
\* 0xFF and Subtraction alone is set
C20_Witness ==
    /\ Executed(CpOpcodes)
    /\ ~panicked
    /\ OperandX = 255
    /\ OperandY = 240
    /\ instr.cpu.flags = CpuFlags
    /\ cpu.a = 255
    /\ cpu.flags = {SUBTRACTION_FLAG}

-----------------------------------------------------------------------------
\* the opcodes whose operation reads the incoming Carry
CarryOpcodes == AdcOpcodes \cup SbcOpcodes

\* the outcome of the same opcode fetched in the same state but for the flags
WithFlags(incoming) ==
    fetch_and_execute_instruction([instr.cpu EXCEPT !.flags = incoming], instr.memory)

\* C21: the outcome of an ALU instruction (whether it returns, the value of
\* A, the flags) is the same from every state that differs only in Zero,
\* Subtraction and Half-Carry and, unless the operation is adc or sbc, in
\* Carry.
C21_FlagsFromOperands ==
    Executed(AluOpcodes) =>
        \A incoming \in SUBSET CpuFlags :
            (instr.opcode \in CarryOpcodes =>
                (CARRY_FLAG \in incoming <=> CARRY_FLAG \in instr.cpu.flags)) =>
                /\ WithFlags(incoming).panic = panicked
                /\ ~panicked =>
                      /\ WithFlags(incoming).cpu.a = cpu.a
                      /\ WithFlags(incoming).cpu.flags = cpu.flags

\* an ALU instruction has been executed with Zero, Subtraction and
\* Half-Carry set and has left none of them set
C21_Witness ==
    /\ Executed(AluOpcodes)
    /\ ~panicked
    /\ instr.cpu.flags = {ZERO_FLAG, SUBTRACTION_FLAG, HALF_CARRY_FLAG}
    /\ cpu.flags = {}
    /\ cpu.a # 0

\* C22: every ALU instruction returns, whatever the operands and the
\* incoming Carry are.
C22_AluReturns ==
    Executed(AluOpcodes) => ~panicked

-----------------------------------------------------------------------------
\* the discriminants of enum Instruction
DeclaredOpcodes ==
    {0} \cup LoadPairOpcodes \cup {2, 18, 34, 50} \cup IncPairOpcodes
    \cup IncRegisterOpcodes \cup LoadOpcodes \cup AluOpcodes

\* the last call found the queue empty and read the byte at PC
Fetched == last.fetched = 1 /\ instr.n = 1 /\ instr.opcode \in 0..255

\* C23: a step that finds the queue empty and a byte outside the table at PC
\* fails and changes nothing (it is no NOP and no other instruction); on a
\* byte of the table the step decodes to an instruction and PC has advanced.
C23_DecodeFailure ==
    Fetched =>
        /\ instr.opcode \notin DeclaredOpcodes =>
              /\ panicked
              /\ cpu = instr.cpu
              /\ memory = instr.memory
        /\ instr.opcode \in DeclaredOpcodes =>
              /\ cpu.pc = instr.pc + 1
              /\ from_u8(instr.opcode).tag # "None"

\* the byte 0xFF has been met as an opcode after instructions that set
\* registers and flags
C23_Witness ==
    /\ Fetched
    /\ instr.opcode = 255
    /\ panicked
    /\ steps > 0
    /\ cpu.flags # {}

\* the address LD (rr),A / LD (HL+),A / LD (HL-),A captured at dispatch
StoreAddress ==
    CASE instr.opcode = 2 -> get_bc(instr.cpu)
      [] instr.opcode = 18 -> get_de(instr.cpu)
      [] instr.opcode \in {34, 50} -> get_hl(instr.cpu)

\* the last call executed the store micro-op of a store instruction
StoreExecuted == last.executed = 1 /\ instr.opcode \in {2, 18, 34, 50} /\ instr.n = 2

\* C24: a call that meets a byte outside the table at PC, or whose store is
\* rejected by the byte store, returns to its caller (with a failure
\* outcome); it does not panic.
C24_FailureIsReturned ==
    /\ (Fetched /\ instr.opcode \notin DeclaredOpcodes) => ~panicked
    /\ (StoreExecuted /\ ~in_rom_bank_0(StoreAddress)) => ~panicked

-----------------------------------------------------------------------------
\* C25: get_data(a) and set_byte(a, v) return for every address a in
\* 0..65535, and the byte written is the byte stored at a.
C25_FlatByteStore ==
    /\ last.op = "get_data" => ~panicked
    /\ last.op = "set_byte" => ~panicked /\ peek(memory, last.address) = last.data

\* the addresses at which `m` may hold a byte that is not 0; every other
\* accepted address reads 0 (peek)
Written(m) == DOMAIN m

\* C26: a fresh store reads 0 at every accepted address; a set_byte(a, v)
\* at an accepted address makes get_data(a) return v, whatever was written
\* to a before, and leaves what get_data returns at every other address.
C26_RoundTrip ==
    /\ [](last.op = "new" =>
             \A address \in ROM_BANK_0_START..(ROM_BANK_N_START - 1) :
                 get_data(memory, address) = [panic |-> FALSE, value |-> 0])
    /\ [][(last'.op = "set_byte" /\ ~panicked') =>
             /\ get_data(memory', last'.address) = [panic |-> FALSE, value |-> last'.data]
             /\ \A other \in (Written(memory) \cup Written(memory')) \ {last'.address} :
                    get_data(memory', other) = get_data(memory, other)]_vars

\* an address that held 0xFF has been written again with 0x01 and reads
\* 0x01
C26_Witness ==
    /\ last.op = "set_byte"
    /\ ~panicked
    /\ steps = 2
    /\ last.address = 16383
    /\ last.data = 1
    /\ get_data(memory, 16383).value = 1
    /\ DOMAIN memory = {16383}

\* the high and the low half of a pair, and the getter of the pair
PairHalves(register) ==
    CASE register = "Bc" -> [hi |-> "b", lo |-> "c"]
      [] register = "De" -> [hi |-> "d", lo |-> "e"]
      [] register = "Hl" -> [hi |-> "h", lo |-> "l"]

GetPair(self, register) ==
    CASE register = "Bc" -> get_bc(self)
      [] register = "De" -> get_de(self)
      [] register = "Hl" -> get_hl(self)

Pairs == {"Bc", "De", "Hl"}

\* C27: for BC, DE and HL the getter returns (hi << 8) | lo; the setter
\* writes hi = v >> 8 and lo = v & 0xFF and nothing else, so that the getter
\* then returns v; a half written directly shows in the getter.
C27_PairViews ==
    /\ [](\A register \in Pairs :
             LET value == GetPair(cpu, register)
                 halves == PairHalves(register)
             IN  /\ value \in 0..65535
                 /\ \A i \in 0..7 : /\ Bit(value, i) = Bit(cpu[halves.lo], i)
                                      /\ Bit(value, i + 8) = Bit(cpu[halves.hi], i))
    /\ [][last'.op = "set_pair" =>
             LET halves == PairHalves(last'.register)
             IN  /\ cpu' = [cpu EXCEPT ![halves.hi] = last'.value \div 256,
                                        ![halves.lo] = last'.value % 256]
                 /\ GetPair(cpu', last'.register) = last'.value]_vars
    /\ [][last'.op = "set_half" =>
             \A register \in Pairs :
                 LET halves == PairHalves(register)
                 IN  GetPair(cpu', register) =
                         CASE last'.register = halves.hi -> last'.value * 256 + cpu[halves.lo]
                           [] last'.register = halves.lo -> cpu[halves.hi] * 256 + last'.value
                           [] OTHER -> GetPair(cpu, register)]_vars

\* set_hl(0xFF00) has been followed by a direct write of 0x01 to L, and HL
\* reads 0xFF01
C27_Witness ==
    /\ last.op = "set_half"
    /\ last.register = "l"
    /\ last.value = 1
    /\ steps = 2
    /\ cpu.h = 255
    /\ get_hl(cpu) = 65281

-----------------------------------------------------------------------------
\* C28: LD (HL+),A / LD (HL-),A: when the dispatch step has returned, HL is
\* already the old HL plus / minus one while the store is unchanged and the
\* queued write carries the old HL and the A of the dispatch; when the next
\* step has returned, exactly the byte at the old HL has been written, with
\* that A.
C28_CaptureBeforeMutate ==
    (instr.opcode \in {34, 50} /\ instr.n >= 1 /\ ~panicked) =>
        LET captured == get_hl(instr.cpu)
            change == IF instr.opcode = 34 THEN 1 ELSE 65535
        IN  /\ get_hl(cpu) = (captured + change) % 65536
            /\ instr.n = 1 =>
                  /\ memory = instr.memory
                  /\ cpu.micro_op_queue = <<StoreToMemory(instr.cpu.a, captured)>>
            /\ instr.n = 2 =>
                  /\ memory = set_byte(instr.memory, captured, instr.cpu.a)
                  /\ QueueEmpty
            /\ instr.n <= 2

\* LD (HL-),A has written a non-zero A to the old HL; the byte at the new
\* HL is still 0
C28_Witness ==
    /\ instr.opcode = 50
    /\ instr.n = 2
    /\ ~panicked
    /\ instr.cpu.a # 0
    /\ get_hl(cpu) # get_hl(instr.cpu)
    /\ peek(memory, get_hl(instr.cpu)) = instr.cpu.a
    /\ peek(memory, get_hl(cpu)) = 0

\* C29: a step that fails on an unmapped opcode or on an access the byte
\* store rejects (at the opcode fetch or in a micro-op) leaves the
\* registers, the flags, PC, SP, the store and the queue as they were.
C29_NoPartialFailure ==
    [][(/\ panicked'
        /\ \/ cpu.micro_op_queue # << >>
           \/ get_instruction(cpu, memory).panic) =>
           /\ cpu' = cpu
           /\ memory' = memory]_vars

-----------------------------------------------------------------------------
\* the byte the destination of a LoadImmediate holds in `self`
DestinationByte(self, destination) ==
    CASE destination = "A" -> self.a
      [] destination = "B" -> self.b
      [] destination = "C" -> self.c
      [] destination = "D" -> self.d
      [] destination = "E" -> self.e
      [] destination = "H" -> self.h
      [] destination = "L" -> self.l
      [] destination = "F" -> self.f
      [] destination = "S" -> self.sp \div 256
      [] destination = "P" -> self.sp % 256

\* the bytes `self` holds outside `destination`
BytesBeside(self, destination) ==
    [other \in {"A", "B", "C", "D", "E", "H", "L", "F", "S", "P"} \ {destination} |->
        DestinationByte(self, other)]

\* C30: a step that finds the queue non-empty reads no opcode: a
\* LoadImmediate returns whatever the byte at PC is, puts that byte in its
\* destination and changes nothing else but PC and the queue; no micro-op
\* changes the flags or queues anything, and a step fails only when the
\* byte store rejects an address.
C30_DrainingNeverDecodes ==
    [][cpu.micro_op_queue # << >> =>
         LET front == Head(cpu.micro_op_queue)
         IN  /\ last'.fetched = 0
             /\ panicked' =>
                   \/ front.op = "StoreToMemory" /\ ~in_rom_bank_0(front.address)
                   \/ front.op = "LoadImmediate" /\ ~in_rom_bank_0(cpu.pc)
             /\ ~panicked' =>
                   /\ cpu'.micro_op_queue = Tail(cpu.micro_op_queue)
                   /\ cpu'.flags = cpu.flags
                   /\ cpu'.pc = cpu.pc + 1
             /\ (front.op = "StoreToMemory" /\ ~panicked') =>
                   \A r \in Registers : cpu'[r] = cpu[r]
             /\ (front.op = "LoadImmediate" /\ in_rom_bank_0(cpu.pc)) =>
                   /\ ~panicked'
                   /\ DestinationByte(cpu', front.destination) = peek(memory, cpu.pc)
                   /\ BytesBeside(cpu', front.destination) = BytesBeside(cpu, front.destination)
                   /\ memory' = memory]_vars

\* LD BC,nn has loaded 0x0F, which is no opcode, into C and 0x80, which is
\* ADD A,B, into B; A and the flags are untouched
C30_Witness ==
    /\ instr.opcode = 1
    /\ instr.n = 3
    /\ ~panicked
    /\ last.executed = 1
    /\ cpu.c = 15
    /\ cpu.b = 128
    /\ cpu.a = 0
    /\ cpu.flags = {}
    /\ QueueEmpty

-----------------------------------------------------------------------------
(* The queue over a run *)

\* <<low, high>>: the destinations the four LD rr,nn arms queue, in the
\* order of their two calls
ImmediateHalves == {<<"C", "B">>, <<"E", "D">>, <<"L", "H">>, <<"P", "S">>}

\* C31: the queue never holds more than 2 entries; 2 entries are the
\* immediate load of the low half followed by that of the high half of one
\* register pair; and the queue grows only in a step that found it empty
\* and read an opcode.
C31_QueueAtMostTwo ==
    /\ [](/\ Len(cpu.micro_op_queue) <= 2
          /\ Len(cpu.micro_op_queue) = 2 =>
                \E halves \in ImmediateHalves :
                    cpu.micro_op_queue =
                        <<LoadImmediate(halves[1]), LoadImmediate(halves[2])>>)
    /\ [][Len(cpu'.micro_op_queue) > Len(cpu.micro_op_queue) =>
             /\ cpu.micro_op_queue = << >>
             /\ last'.fetched = 1]_vars

\* LD SP,nn has been dispatched: P and S are queued, in that order
C31_Witness ==
    /\ instr.opcode = 49
    /\ instr.n = 1
    /\ last.fetched = 1
    /\ ~panicked
    /\ cpu.micro_op_queue = <<LoadImmediate("P"), LoadImmediate("S")>>

\* The runs of one instruction, on a fresh core or after one LD rr,nn
LivePrograms ==
    {setup \o instruction : setup \in {<< >>} \cup PairLoads, instruction \in Instructions}

LiveInit ==
    /\ memory \in {Image(program) : program \in LivePrograms}
    /\ cpu = Cpu_new
    /\ panicked = FALSE
    /\ overflow_checks \in BOOLEAN
    /\ steps = 0
    /\ last = [fetched |-> 0, executed |-> 0]
    /\ instr = [opcode |-> -1, pc |-> INITIAL_PC, cpu |-> Cpu_new, memory |-> memory, n |-> 0]

\* The host keeps calling execute_instruction for as long as the run lasts,
\* as the tests do for every instruction that takes more than one call.
SpecLive == LiveInit /\ [][Next]_vars /\ WF_vars(Step)

\* The entries the arm of an opcode pushes
Enqueued(opcode) ==
    IF opcode \in LoadPairOpcodes THEN 2
    ELSE IF opcode \in StoreOpcodes \cup {34, 50} \cup IncPairOpcodes THEN 1
    ELSE 0

\* C32: draining ends.  After the dispatch of an opcode whose arm pushed k
\* entries and instr.n returned calls (the dispatch included) the queue
\* holds 1 + k - instr.n entries, so it is empty exactly k calls after the
\* dispatch and an opcode is read at least once in 3 consecutive calls; and
\* a host that keeps stepping takes a non-empty queue to an empty one,
\* unless a call panics.
C32_DrainingEnds ==
    /\ []((~panicked /\ instr.n >= 1) =>
             /\ instr.n <= 3
             /\ Len(cpu.micro_op_queue) = 1 + Enqueued(instr.opcode) - instr.n)
    /\ (~panicked /\ ~QueueEmpty /\ steps <= MaxSteps - 2) ~> (QueueEmpty \/ panicked)

\* The third call of LD DE,nn has returned with the queue empty
C32_Witness ==
    /\ instr.opcode = 17
    /\ instr.n = 3
    /\ last.executed = 1
    /\ ~panicked
    /\ QueueEmpty

-----------------------------------------------------------------------------
(* What a step leaves alone *)

\* C33: the store changes only in a step that pops a StoreToMemory entry,
\* and then at the entry's address only; such a step that returns leaves
\* the entry's value there.  Every step that reads an opcode and every
\* LoadImmediate and StoreToSixteenBitRegister step leaves the store as it
\* was.
C33_StoreFrame ==
    [][/\ memory' # memory =>
            /\ cpu.micro_op_queue # << >>
            /\ Head(cpu.micro_op_queue).op = "StoreToMemory"
            /\ \A address \in (DOMAIN memory \cup DOMAIN memory')
                                 \ {Head(cpu.micro_op_queue).address} :
                   peek(memory', address) = peek(memory, address)
       /\ (/\ cpu.micro_op_queue # << >>
           /\ Head(cpu.micro_op_queue).op = "StoreToMemory"
           /\ ~panicked') =>
              peek(memory', Head(cpu.micro_op_queue).address)
                  = Head(cpu.micro_op_queue).value]_vars

\* LD (HL+),A has written A = 0x10 to 0x0200, where HL pointed, and the
\* bytes of the program are as they were
C33_Witness ==
    /\ instr.opcode = 34
    /\ instr.n = 2
    /\ last.executed = 1
    /\ ~panicked
    /\ peek(instr.memory, 512) = 0
    /\ peek(memory, 512) = 16
    /\ DOMAIN memory = DOMAIN instr.memory \cup {512}
    /\ \A address \in DOMAIN instr.memory : memory[address] = instr.memory[address]

\* C34: the flags change only in a step that reads an opcode of the ALU
\* block (0x80..0xBF); every micro-op step and the dispatch of every other
\* opcode leave the four flags as they were, so the flags an instruction
\* finds are those the instruction before it found unless that one was an
\* ALU instruction, and the Carry an ALU instruction leaves reaches a later
\* ADC or SBC through any number of other instructions.
C34_FlagsFrame ==
    /\ [][cpu'.flags # cpu.flags =>
             /\ last'.fetched = 1
             /\ instr'.opcode \in AluOpcodes]_vars
    /\ [][(last'.fetched = 1 /\ instr.n >= 1 /\ instr.opcode \notin AluOpcodes) =>
             instr'.cpu.flags = instr.cpu.flags]_vars

\* SUB A,B has set Carry (0 - 0xF0), LD HL,nn has run its three steps, and
\* ADC A,B has found Carry set: 0x10 + 0xF0 + 1 = 0x01 with Carry
C34_Witness ==
    /\ peek(memory, 259) = 144
    /\ peek(memory, 260) = 33
    /\ instr.opcode = 136
    /\ instr.pc = 263
    /\ instr.n = 1
    /\ ~panicked
    /\ CARRY_FLAG \in instr.cpu.flags
    /\ cpu.a = 1
    /\ CARRY_FLAG \in cpu.flags

\* The register the low three bits of an ALU opcode name
NamedRegister(opcode) ==
    CASE opcode % 8 = 0 -> "b"
      [] opcode % 8 = 1 -> "c"
      [] opcode % 8 = 2 -> "d"
      [] opcode % 8 = 3 -> "e"
      [] opcode % 8 = 4 -> "h"
      [] opcode % 8 = 5 -> "l"
      [] opcode % 8 = 7 -> "a"

\* C35: the step that reads an ALU opcode leaves the queue empty, B, C, D,
\* E, H, L, F, SP and the store as they were, and, when it returns, PC one
\* further and in A the result of the operation on the A and the named
\* register (A itself for the xxAA opcodes) the step found; CP leaves A as
\* it was.  A step that panics has written no register.
C35_AluFrame ==
    (Executed(AluOpcodes) /\ instr.opcode % 8 # 6) =>
        LET x == instr.cpu.a
            y == instr.cpu[NamedRegister(instr.opcode)]
            result ==
                CASE instr.opcode \in AddOpcodes -> (x + y) % 256
                  [] instr.opcode \in AdcOpcodes -> (x + y + CarryIn) % 256
                  [] instr.opcode \in SubOpcodes -> (x - y + 256) % 256
                  [] instr.opcode \in SbcOpcodes -> (x - y - CarryIn + 512) % 256
                  [] instr.opcode \in AndOpcodes -> bitwise("and", x, y, 8)
                  [] instr.opcode \in XorOpcodes -> bitwise("xor", x, y, 8)
                  [] instr.opcode \in OrOpcodes  -> bitwise("or", x, y, 8)
                  [] instr.opcode \in CpOpcodes  -> x
        IN  /\ instr.n = 1
            /\ QueueEmpty
            /\ RegistersKept({"a"})
            /\ memory = instr.memory
            /\ ~panicked => cpu.pc = instr.pc + 1 /\ cpu.a = result
            /\ panicked => cpu.a = x /\ FlagsKept

\* as in test_adc_aa_overflow_with_carry: ADC A,A with A = 0x80 and Carry
\* set leaves 0x01 in A and Carry set, and B as it was
C35_Witness ==
    /\ instr.opcode = 143
    /\ instr.cpu.a = 128
    /\ CARRY_FLAG \in instr.cpu.flags
    /\ ~panicked
    /\ cpu.a = 1
    /\ cpu.flags = {CARRY_FLAG}
    /\ cpu.b = instr.cpu.b
    /\ QueueEmpty

-----------------------------------------------------------------------------
(* SBC beside SUB *)

\* C36: an SBC that finds Carry clear leaves in A and in the flags what
\* sub returns and sets for the same two operands.
C36_SbcIsSubWithoutCarry ==
    (Executed(SbcOpcodes) /\ CarryIn = 0) =>
        LET subtraction == sub(instr.cpu, OperandX, OperandY)
        IN  /\ ~panicked
            /\ ~subtraction.panic
            /\ cpu.a = subtraction.out
            /\ cpu.flags = subtraction.flags

-----------------------------------------------------------------------------
(* Runs to the end of rom_bank_0.  The store holds NOP everywhere but at    *)
(* one of its last two addresses, and the host calls execute_instruction    *)
(* until a call panics.                                                     *)

\* 0x3FFE, 0x3FFF
LastAddresses == {ROM_BANK_N_START - 2, ROM_BANK_N_START - 1}

\* LD BC,nn  LD (BC),A  INC BC  INC A
LastOpcodes == {1, 2, 3, 60}

RunInit ==
    /\ memory \in {Memory_new}
                  \cup {set_byte(Memory_new, address, opcode) :
                            address \in LastAddresses, opcode \in LastOpcodes}
    /\ cpu = Cpu_new
    /\ panicked = FALSE
    /\ overflow_checks \in BOOLEAN
    /\ steps = 0
    /\ last = [fetched |-> 0, executed |-> 0]
    /\ instr = [opcode |-> -1, pc |-> INITIAL_PC, cpu |-> Cpu_new, memory |-> memory, n |-> 0]

RunStep ==
    /\ ~panicked
    /\ Call

RunNext == RunStep

SpecRun == RunInit /\ [][RunNext]_vars

\* C37: PC stays between 0x0100 and 0x4000, and no run has more than 0x3F00
\* calls that return.
C37_PcInsideBank ==
    /\ INITIAL_PC <= cpu.pc
    /\ cpu.pc <= ROM_BANK_N_START
    /\ steps <= ROM_BANK_N_START - INITIAL_PC

====
